---- MODULE Spec2Model ----
(***************************************************************************)
(* The virtfs staging / collection engine of ybd (src/ybd/virtfs.py).      *)
(*                                                                         *)
(* The host filesystem is a set of directory entries (dent) naming inodes  *)
(* (inode); the sidecar attribute store is the set of files kept below     *)
(* each directory's .virtfs_metadata subdirectory (meta, metadirs); the    *)
(* artifact is the tar stream last written by collect_artifact (arc).      *)
(* Every public entry point of the module is one action.                   *)
(***************************************************************************)
EXTENDS Integers, Sequences, FiniteSets, TLC

VARIABLES
    dent,      \* [tree -> [path -> inode number]] : the directory entries
    inode,     \* [inode number -> stat data and content]
    meta,      \* [tree -> [path -> sidecar file of that entry]]
    metadirs,  \* [tree -> set of directories holding a .virtfs_metadata]
    arc,       \* the artifact file written by the last collect_artifact
    ident,     \* effective identity of the process and the account database
    unchanged, \* the tree arc was collected from has not changed since
    last,      \* the last call: its name, arguments and outcome
    nops,      \* number of calls made so far
    devIn,     \* input of the device-number functions: <<major, minor>>
    devOut,    \* their output: <<rdev, major, minor>>
    running    \* two invocations that run concurrently: the state they
               \* started from and how far each has got

vars == <<dent, inode, meta, metadirs, arc, unchanged, ident, last, nops, devIn, devOut,
          running>>

fsvars == <<dent, inode, meta, metadirs, arc, unchanged, ident, last, nops>>

devvars == <<devIn, devOut>>

(***************************************************************************)
(* Bounds of the model.                                                    *)
(***************************************************************************)
\* number of entry-point calls explored in one behaviour
MaxOps == 2

\* largest device major number fed to the packing functions
MaxMajor == 258

\* largest device minor number fed to the packing functions
MaxMinor == 256

(***************************************************************************)
(* Python integer operators used by the module: >>, <<, & and |.           *)
(***************************************************************************)
RECURSIVE BitAnd(_, _)
BitAnd(x, y) ==
    IF x = 0 \/ y = 0 THEN 0
    ELSE (x % 2) * (y % 2) + 2 * BitAnd(x \div 2, y \div 2)

RECURSIVE BitOr(_, _)
BitOr(x, y) ==
    IF x = 0 THEN y
    ELSE IF y = 0 THEN x
    ELSE (IF x % 2 = 1 \/ y % 2 = 1 THEN 1 ELSE 0) + 2 * BitOr(x \div 2, y \div 2)

ShiftR(x, n) == x \div (2 ^ n)

ShiftL(x, n) == x * (2 ^ n)

(***************************************************************************)
(* Device number packing, lines 60-67.                                     *)
(***************************************************************************)
DevMajorUnmasked(dev) == ShiftR(dev, 8)

_dev_major(dev) == BitAnd(ShiftR(dev, 8), 255)

_dev_minor(dev) == BitAnd(dev, 255)

_dev_from_major_minor(major, minor) == BitOr(ShiftL(major, 8), minor)

(***************************************************************************)
(* str() of a non-negative integer ('%s' % n) and int() of such a string,  *)
(* as sequences of characters.                                             *)
(***************************************************************************)
Digits == <<"0", "1", "2", "3", "4", "5", "6", "7", "8", "9">>

RECURSIVE str(_)
str(n) ==
    IF n < 10 THEN <<Digits[n + 1]>>
    ELSE str(n \div 10) \o <<Digits[(n % 10) + 1]>>

DigitVal(c) == CHOOSE d \in 0..9 : Digits[d + 1] = c

RECURSIVE int(_)
int(s) ==
    IF Len(s) = 1 THEN DigitVal(s[1])
    ELSE 10 * int(SubSeq(s, 1, Len(s) - 1)) + DigitVal(s[Len(s)])

(***************************************************************************)
(* struct stat mode bits (Python's stat module).                           *)
(***************************************************************************)
S_IFSOCK == 49152

S_IFLNK == 40960

S_IFREG == 32768

S_IFBLK == 24576

S_IFDIR == 16384

S_IFCHR == 8192

S_IFIFO == 4096

\* mode & 0170000: the mask selects bits 12 to 15
S_IFMT(mode) == ((mode \div 4096) % 16) * 4096

\* mode & 07777
S_IMODE(mode) == mode % 4096

S_ISREG(mode) == S_IFMT(mode) = S_IFREG

S_ISDIR(mode) == S_IFMT(mode) = S_IFDIR

S_ISLNK(mode) == S_IFMT(mode) = S_IFLNK

S_ISFIFO(mode) == S_IFMT(mode) = S_IFIFO

S_ISCHR(mode) == S_IFMT(mode) = S_IFCHR

S_ISBLK(mode) == S_IFMT(mode) = S_IFBLK

(***************************************************************************)
(* tarfile member types.                                                   *)
(***************************************************************************)
REGTYPE == "0"

LNKTYPE == "1"

SYMTYPE == "2"

CHRTYPE == "3"

BLKTYPE == "4"

DIRTYPE == "5"

FIFOTYPE == "6"

(***************************************************************************)
(* Sidecar keys and the default timestamp, lines 37-44.                    *)
(***************************************************************************)
VIRTFS_META_DIR == ".virtfs_metadata"

VIRTFS_UID_KEY == "virtfs.uid"

VIRTFS_GID_KEY == "virtfs.gid"

VIRTFS_MODE_KEY == "virtfs.mode"

VIRTFS_RDEV_KEY == "virtfs.rdev"

\* calendar.timegm: seconds since the epoch of a UTC date (proleptic Gregorian)
IsLeap(y) == (y % 4 = 0 /\ y % 100 # 0) \/ y % 400 = 0

DaysBeforeYear(y) ==
    LET p == y - 1
    IN  p * 365 + p \div 4 - p \div 100 + p \div 400

DaysInMonth(y, m) ==
    IF m = 2 THEN (IF IsLeap(y) THEN 29 ELSE 28)
    ELSE IF m \in {4, 6, 9, 11} THEN 30 ELSE 31

RECURSIVE DaysBeforeMonth(_, _)
DaysBeforeMonth(y, m) ==
    IF m = 1 THEN 0 ELSE DaysBeforeMonth(y, m - 1) + DaysInMonth(y, m - 1)

timegm(t) ==
    LET days == DaysBeforeYear(t[1]) + DaysBeforeMonth(t[1], t[2]) + (t[3] - 1)
                - (DaysBeforeYear(1970))
    IN  ((days * 24 + t[4]) * 60 + t[5]) * 60 + t[6]

MAGIC_TIMESTAMP == timegm(<<2011, 11, 11, 11, 11, 11>>)

(***************************************************************************)
(* Names, paths and strings.  A path is the sequence of its components; a  *)
(* string (file content, link target, account name) is the sequence of its *)
(* characters.                                                             *)
(***************************************************************************)
Trees == {"src", "dst"}

Names == {"a", "b", "c", "d"}

AllNames == Names \cup {VIRTFS_META_DIR}

\* byte order of the names, as Python's sorted() compares them
NameRank(n) ==
    CASE n = VIRTFS_META_DIR -> 0
      [] n = "a" -> 1
      [] n = "b" -> 2
      [] n = "c" -> 3
      [] n = "d" -> 4

RECURSIVE Insert(_, _)
Insert(n, s) ==
    IF s = <<>> THEN <<n>>
    ELSE IF NameRank(n) <= NameRank(Head(s)) THEN <<n>> \o s
    ELSE <<Head(s)>> \o Insert(n, Tail(s))

Unsorted(s) == s

RECURSIVE sorted(_)
sorted(s) == IF s = <<>> THEN <<>> ELSE Insert(Head(s), sorted(Tail(s)))

RECURSIVE SelectNames(_, _)
SelectNames(o, present) ==
    IF o = <<>> THEN <<>>
    ELSE IF Head(o) \in present THEN <<Head(o)>> \o SelectNames(Tail(o), present)
    ELSE SelectNames(Tail(o), present)

Parent(p) == SubSeq(p, 1, Len(p) - 1)

Basename(p) == p[Len(p)]

(***************************************************************************)
(* The host filesystem.  A world w is the part of the state the file       *)
(* operations act on, with the error (if any) that ended the call.         *)
(***************************************************************************)
\* one statement after another: v is computed once, and rest goes on from
\* its value
Then(v, rest(_)) == CHOOSE r \in {rest(x) : x \in {v}} : TRUE

World == [dent |-> dent, inode |-> inode, meta |-> meta, metadirs |-> metadirs,
          ident |-> ident, err |-> ""]

Raise(w, e) == [w EXCEPT !.err = e]

exists(w, t, p) == p \in DOMAIN w.dent[t]

\* the directory entries that name inode i
Links(w, i) ==
    UNION {{<<u, q>> : q \in {r \in DOMAIN w.dent[u] : w.dent[u][r] = i}} : u \in Trees}

\* a stat that reports the permission bits as the stager forces them
LstatForced(w, t, p) ==
    LET i == w.dent[t][p]
        n == w.inode[i]
    IN  [st_mode |-> S_IFMT(n.mode) + 384, st_uid |-> n.uid, st_gid |-> n.gid,
         st_rdev |-> n.rdev, st_size |-> Len(n.data), st_ino |-> i, st_dev |-> 1,
         st_nlink |-> 1]

\* os.lstat
lstat(w, t, p) ==
    LET i == w.dent[t][p]
        n == w.inode[i]
    IN  [st_mode |-> n.mode, st_uid |-> n.uid, st_gid |-> n.gid, st_rdev |-> n.rdev,
         st_size |-> Len(n.data), st_ino |-> i, st_dev |-> 1,
         st_nlink |-> Cardinality(Links(w, i))]

\* os.path.isdir, for paths that are not symlinks to directories
isdir(w, t, p) ==
    \/ p = <<>>
    \/ exists(w, t, p) /\ S_ISDIR(w.inode[w.dent[t][p]].mode)

\* a test that takes every entry for a symlink
AlwaysLink(w, t, p) == TRUE

\* os.path.islink
islink(w, t, p) == exists(w, t, p) /\ S_ISLNK(w.inode[w.dent[t][p]].mode)

\* os.listdir, in the order o
listdir(w, t, dir, o) ==
    SelectNames(o, {Basename(p) : p \in {q \in DOMAIN w.dent[t] : Len(q) > 0 /\ Parent(q) = dir}}
                   \cup (IF dir \in w.metadirs[t] THEN {VIRTFS_META_DIR} ELSE {}))

FreshIno(w) ==
    LET used == DOMAIN w.inode
    IN  IF used = {} THEN 1 ELSE 1 + CHOOSE m \in used : \A k \in used : k <= m

Restrict(f, S) == [x \in S |-> f[x]]

\* os.unlink: the entry goes, and the inode with its last entry
unlink(w, t, p) ==
    LET w1 == [w EXCEPT !.dent[t] = Restrict(@, DOMAIN @ \ {p})]
    IN  [w1 EXCEPT !.inode = Restrict(@, {i \in DOMAIN @ : Links(w1, i) # {}})]

\* open(p, 'w+') followed by write(data): truncates an existing file, else
\* creates one owned by the process, with the mode the umask 022 leaves
create(w, t, p, data) ==
    IF exists(w, t, p)
    THEN [w EXCEPT !.inode[w.dent[t][p]].data = data]
    ELSE LET i == FreshIno(w)
         IN  [w EXCEPT !.dent[t] = @ @@ (p :> i),
                       !.inode = @ @@ (i :> [mode |-> S_IFREG + 420, uid |-> w.ident.euid,
                                              gid |-> w.ident.egid, rdev |-> 0, data |-> data])]

\* os.chmod: for the owner of the file and for the superuser
chmod(w, t, p, perm) ==
    IF w.ident.euid \notin {0, w.inode[w.dent[t][p]].uid} THEN Raise(w, "OSError.EPERM")
    ELSE [w EXCEPT !.inode[w.dent[t][p]].mode = S_IFMT(@) + perm]

(***************************************************************************)
(* The sidecar attribute store, lines 70-106.  A sidecar file is the       *)
(* sequence of its lines, each a key and the decimal string of a value.    *)
(***************************************************************************)
AttrLine(attrs, key) == [key |-> key, val |-> str(attrs[key])]

\* a file that never gets the line of the rdev
LinesWithoutRdev(attrs) ==
    <<AttrLine(attrs, VIRTFS_UID_KEY), AttrLine(attrs, VIRTFS_GID_KEY),
      AttrLine(attrs, VIRTFS_MODE_KEY)>>

\* the lines written at lines 101-106
SidecarLines(attrs) ==
    <<AttrLine(attrs, VIRTFS_UID_KEY), AttrLine(attrs, VIRTFS_GID_KEY),
      AttrLine(attrs, VIRTFS_MODE_KEY)>>
    \o (IF VIRTFS_RDEV_KEY \in DOMAIN attrs
        THEN <<AttrLine(attrs, VIRTFS_RDEV_KEY)>> ELSE <<>>)

\* the parse loop of lines 76-80: a later line replaces an earlier one
ParseLines(lines) ==
    [k \in {lines[i].key : i \in DOMAIN lines} |->
        LET n == CHOOSE i \in DOMAIN lines :
                    /\ lines[i].key = k
                    /\ \A j \in DOMAIN lines : lines[j].key = k => j <= i
        IN  int(lines[n].val)]

\* the sidecar file of file_name in dir_name; "" names the metadata directory
AttrsFile(dir_name, file_name) ==
    IF file_name = "" THEN dir_name \o <<VIRTFS_META_DIR>> ELSE dir_name \o <<file_name>>

has_attrs(w, t, dir_name, file_name) ==
    file_name # "" /\ AttrsFile(dir_name, file_name) \in DOMAIN w.meta[t]

_read_virtfs_attrs(w, t, dir_name, file_name) ==
    ParseLines(w.meta[t][AttrsFile(dir_name, file_name)])

AttrsNeverFile(w, t, dir_name, file_name) == FALSE

\* lines 96-97: os.path.isfile(attrs_file)
isfile_attrs(w, t, dir_name, file_name) == has_attrs(w, t, dir_name, file_name)

_write_virtfs_attrs(w, t, attrs, dir_name, file_name) ==
    IF ~isdir(w, t, dir_name)
    THEN Raise(w, IF exists(w, t, dir_name) THEN "OSError.ENOTDIR" ELSE "OSError.ENOENT")
    ELSE LET w1 == [w EXCEPT !.metadirs[t] = @ \cup {dir_name}]
         IN  IF file_name = "" THEN Raise(w1, "IOError.EISDIR")
             ELSE IF isfile_attrs(w1, t, dir_name, file_name) THEN w1
             ELSE [w1 EXCEPT !.meta[t] =
                       (AttrsFile(dir_name, file_name) :> SidecarLines(attrs)) @@ @]

(***************************************************************************)
(* The stager, lines 328-368 and 428-452.                                  *)
(***************************************************************************)
_stage_file_for_virtfs(w, t, dir_name, filename, fullpath) ==
    IF ~exists(w, t, fullpath) THEN Raise(w, "OSError.ENOENT")
    ELSE
    LET statres == lstat(w, t, fullpath)
        stmd    == statres.st_mode
        attrs0  == (VIRTFS_UID_KEY :> 0) @@ (VIRTFS_GID_KEY :> 0)
                   @@ (VIRTFS_MODE_KEY :> stmd)
        special == S_ISCHR(stmd) \/ S_ISBLK(stmd) \/ S_ISFIFO(stmd)
        attrs   == IF special THEN attrs0 @@ (VIRTFS_RDEV_KEY :> statres.st_rdev)
                   ELSE attrs0
    IN  Then(IF special THEN create(unlink(w, t, fullpath), t, fullpath, <<>>)
             ELSE IF S_ISLNK(stmd)
             THEN create(unlink(w, t, fullpath), t, fullpath,
                         w.inode[statres.st_ino].data)
             ELSE w, LAMBDA w1 :
        Then(IF S_ISDIR(stmd) THEN chmod(w1, t, fullpath, 448)
             ELSE chmod(w1, t, fullpath, 384), LAMBDA w2 :
        IF w2.err # "" THEN w2
        ELSE _write_virtfs_attrs(w2, t, attrs, dir_name, filename)))

\* slash: the path is spelled with a trailing separator, so that os.path.split
\* returns it whole with an empty file name, and lstat resolves it as a directory
stage_file(w, t, fullpath, slash) ==
    IF ~slash
    THEN _stage_file_for_virtfs(w, t, Parent(fullpath), Basename(fullpath), fullpath)
    ELSE IF exists(w, t, fullpath) /\ ~isdir(w, t, fullpath) THEN Raise(w, "OSError.ENOTDIR")
    ELSE _stage_file_for_virtfs(w, t, fullpath, "", fullpath)

RECURSIVE stage_directory(_, _, _, _)
RECURSIVE StageEntries(_, _, _, _, _)
stage_directory(w, t, dir_name, order) ==
    IF ~isdir(w, t, dir_name)
    THEN Raise(w, IF exists(w, t, dir_name) THEN "OSError.ENOTDIR" ELSE "OSError.ENOENT")
    ELSE StageEntries(w, t, dir_name, listdir(w, t, dir_name, order), order)

\* the loop of lines 444-452 over the names the listing returned
StageEntries(w, t, dir_name, names, order) ==
    IF w.err # "" \/ names = <<>> THEN w
    ELSE LET filename == Head(names)
             name     == dir_name \o <<filename>>
         IN  IF filename = VIRTFS_META_DIR
             THEN StageEntries(w, t, dir_name, Tail(names), order)
             ELSE Then(_stage_file_for_virtfs(w, t, dir_name, filename, name), LAMBDA w1 :
                  Then(IF w1.err = "" /\ isdir(w1, t, name) /\ ~islink(w1, t, name)
                       THEN stage_directory(w1, t, name, order)
                       ELSE w1, LAMBDA w2 :
                  StageEntries(w2, t, dir_name, Tail(names), order)))

(***************************************************************************)
(* tarfile.TarFile as the collector uses it: gettarinfo, add and addfile.  *)
(* A TarFile tf holds the inode table, the members written and the error   *)
(* that ended the pass.                                                    *)
(***************************************************************************)
NewTarFile == [inodes |-> <<>>, members |-> <<>>, err |-> ""]

\* os.major and os.minor of a Linux dev_t
os_major(dev) == BitAnd(ShiftR(dev, 8), 4095)

os_minor(dev) == BitOr(BitAnd(dev, 255), BitAnd(ShiftR(dev, 12), 1048320))

\* pwd.getpwuid(uid)[0] and grp.getgrgid(gid)[0]; a KeyError where there is no entry
HasPw(w, uid) == uid \in DOMAIN w.ident.passwd

getpwuid(w, uid) == w.ident.passwd[uid]

HasGr(w, gid) == gid \in DOMAIN w.ident.group

getgrgid(w, gid) == w.ident.group[gid]

\* the hardlink test of TarFile.gettarinfo, repeated at lines 135-136
IsLinkToArchived(tf, statres, arcname) ==
    LET ino == <<statres.st_ino, statres.st_dev>>
    IN  /\ statres.st_nlink > 1
        /\ ino \in DOMAIN tf.inodes
        /\ arcname # tf.inodes[ino]

Register(tf, statres, arcname) ==
    LET ino == <<statres.st_ino, statres.st_dev>>
    IN  IF ino[1] # 0
        THEN [tf EXCEPT !.inodes = (ino :> arcname) @@ @]
        ELSE tf

TypeOfMode(stmd) ==
    CASE S_ISDIR(stmd)  -> DIRTYPE
      [] S_ISFIFO(stmd) -> FIFOTYPE
      [] S_ISLNK(stmd)  -> SYMTYPE
      [] S_ISCHR(stmd)  -> CHRTYPE
      [] S_ISBLK(stmd)  -> BLKTYPE
      [] OTHER          -> "unsupported"

\* TarFile.gettarinfo: a TarInfo from the lstat of name, and the TarFile with the
\* inode registered; hostmtime is the st_mtime the entry has on the host
gettarinfo(tf, w, t, name, arcname, hostmtime) ==
    LET statres == lstat(w, t, name)
        stmd    == statres.st_mode
        link    == S_ISREG(stmd) /\ IsLinkToArchived(tf, statres, arcname)
        type    == IF S_ISREG(stmd) THEN (IF link THEN LNKTYPE ELSE REGTYPE)
                   ELSE TypeOfMode(stmd)
        device  == type \in {CHRTYPE, BLKTYPE}
    IN  [tf |-> IF S_ISREG(stmd) /\ ~link THEN Register(tf, statres, arcname) ELSE tf,
         tarinfo |->
            [name |-> arcname, mode |-> stmd, uid |-> statres.st_uid,
             gid |-> statres.st_gid,
             size |-> IF type = REGTYPE THEN statres.st_size ELSE 0,
             mtime |-> hostmtime, type |-> type,
             linkname |-> IF link THEN tf.inodes[<<statres.st_ino, statres.st_dev>>]
                          ELSE IF type = SYMTYPE THEN w.inode[statres.st_ino].data
                          ELSE <<>>,
             uname |-> IF HasPw(w, statres.st_uid) THEN getpwuid(w, statres.st_uid) ELSE <<>>,
             gname |-> IF HasGr(w, statres.st_gid) THEN getgrgid(w, statres.st_gid) ELSE <<>>,
             devmajor |-> IF device THEN os_major(statres.st_rdev) ELSE 0,
             devminor |-> IF device THEN os_minor(statres.st_rdev) ELSE 0]]

\* TarFile.addfile: the header keeps the low twelve bits of the mode, and a
\* regular member is followed by size bytes of the file
addfile(tf, w, t, name, tarinfo) ==
    [tf EXCEPT !.members = Append(@,
        [tarinfo EXCEPT !.mode = S_IMODE(tarinfo.mode)] @@
        [data |-> IF tarinfo.type = REGTYPE
                  THEN SubSeq(w.inode[w.dent[t][name]].data, 1, tarinfo.size)
                  ELSE <<>>])]

(***************************************************************************)
(* The collector, lines 118-187 and 265-309.  env is what the host         *)
(* contributes to one pass: the order of the directory listings, the       *)
(* modification time of the entries and the I/O fault met, if any.         *)
(***************************************************************************)
\* the errors open() raises
IOErrors == {"IOError.ENOENT", "IOError.EACCES", "IOError.EIO", "IOError.EISDIR"}

NeverLink(tf, statres, name) == FALSE

\* a test that takes every regular entry for a link to an archived file
AlwaysLinkTo(tf, statres, name) == TRUE

\* lines 135-136: the entry is a link to a file this pass has archived
ApplyIsLink(tf, statres, name) == IsLinkToArchived(tf, statres, name)

_apply_virtfs_attrs(tf, w, t, tarinfo, dir_name, attrs, env) ==
    LET basename == Basename(tarinfo.name)
        fullpath == dir_name \o <<basename>>
        stmd     == attrs[VIRTFS_MODE_KEY]
        statres  == lstat(w, t, fullpath)
        link     == S_ISREG(stmd) /\ ApplyIsLink(tf, statres, tarinfo.name)
        type     == IF S_ISREG(stmd) THEN (IF link THEN LNKTYPE ELSE REGTYPE)
                    ELSE TypeOfMode(stmd)
        linkname == IF link THEN tf.inodes[<<statres.st_ino, statres.st_dev>>]
                    ELSE IF type = SYMTYPE THEN w.inode[statres.st_ino].data
                    ELSE <<>>
        tf1      == IF S_ISREG(stmd) /\ ~link THEN Register(tf, statres, tarinfo.name)
                    ELSE tf
        filled   == [tarinfo EXCEPT
                        !.mode = stmd,
                        !.uid = attrs[VIRTFS_UID_KEY],
                        !.gid = attrs[VIRTFS_GID_KEY],
                        !.uname = str(attrs[VIRTFS_UID_KEY]),
                        !.gname = str(attrs[VIRTFS_GID_KEY]),
                        !.type = type,
                        !.linkname = linkname,
                        !.size = IF type # REGTYPE THEN 0 ELSE @]
    IN  IF type = "unsupported"
        THEN [tf |-> tf, tarinfo |-> tarinfo, err |-> "Exception"]
        ELSE IF type = SYMTYPE /\ ~S_ISREG(statres.st_mode)
        THEN [tf |-> tf, tarinfo |-> tarinfo, err |-> "IOError.EISDIR"]
        ELSE IF type = SYMTYPE /\ env.fault = [kind |-> "link", path |-> fullpath]
        THEN [tf |-> tf, tarinfo |-> tarinfo, err |-> "IOError.EIO"]
        ELSE IF type \in {CHRTYPE, BLKTYPE}
        THEN IF VIRTFS_RDEV_KEY \notin DOMAIN attrs
             THEN [tf |-> tf1, tarinfo |-> filled, err |-> "KeyError"]
             ELSE [tf |-> tf1,
                   tarinfo |-> [filled EXCEPT
                       !.devmajor = _dev_major(attrs[VIRTFS_RDEV_KEY]),
                       !.devminor = _dev_minor(attrs[VIRTFS_RDEV_KEY])],
                   err |-> ""]
        ELSE [tf |-> tf1, tarinfo |-> filled, err |-> ""]

\* lines 273-275: the read of the sidecar file, then its application
ReadAndApply(tf, w, t, tarinfo, dir_name, env) ==
    LET basename == Basename(tarinfo.name)
    IN  IF ~has_attrs(w, t, dir_name, basename)
        THEN [tf |-> tf, tarinfo |-> tarinfo, err |-> "IOError.ENOENT"]
        ELSE IF env.fault = [kind |-> "attrs", path |-> dir_name \o <<basename>>]
        THEN [tf |-> tf, tarinfo |-> tarinfo, err |-> "IOError.EACCES"]
        ELSE Then(_read_virtfs_attrs(w, t, dir_name, basename), LAMBDA attrs :
             _apply_virtfs_attrs(tf, w, t, tarinfo, dir_name, attrs, env))

SwallowNone(e) == FALSE

\* lines 276-278: the errors of the try block that do not leave the filter
Swallowed(e) == e \in IOErrors

\* lines 287-292, with Python's left-to-right evaluation of the condition
NormalizeOwner(w, tarinfo) ==
    IF ~(tarinfo.uid = w.ident.euid /\ tarinfo.gid = w.ident.egid)
    THEN [tarinfo |-> tarinfo, err |-> ""]
    ELSE IF ~HasPw(w, tarinfo.uid) THEN [tarinfo |-> tarinfo, err |-> "KeyError"]
    ELSE IF tarinfo.uname # getpwuid(w, tarinfo.uid) THEN [tarinfo |-> tarinfo, err |-> ""]
    ELSE IF ~HasPw(w, tarinfo.gid) THEN [tarinfo |-> tarinfo, err |-> "KeyError"]
    ELSE IF tarinfo.gname # getpwuid(w, tarinfo.gid) THEN [tarinfo |-> tarinfo, err |-> ""]
    ELSE [tarinfo |-> [tarinfo EXCEPT !.uid = 0, !.gid = 0,
                                      !.uname = <<"0">>, !.gname = <<"0">>],
          err |-> ""]

KeepMtime(tarinfo, mtime) == tarinfo

\* lines 280-281
StampMtime(tarinfo, mtime) == [tarinfo EXCEPT !.mtime = mtime]

filter_virtfs_attrs(tf, w, t, tarinfo, dir_name, mtime, env) ==
    Then(ReadAndApply(tf, w, t, tarinfo, dir_name, env), LAMBDA r :
    Then(IF r.err = "" THEN r
         ELSE IF Swallowed(r.err) THEN [tf |-> tf, tarinfo |-> tarinfo, err |-> ""]
         ELSE r, LAMBDA r1 :
    IF r1.err # "" THEN r1
    ELSE Then(NormalizeOwner(w, StampMtime(r1.tarinfo, mtime)), LAMBDA n :
         [tf |-> r1.tf, tarinfo |-> n.tarinfo, err |-> n.err])))

\* TarFile.add(name, arcname, recursive=False, filter), line 306
add(tf, w, t, name, arcname, dir_name, mtime, env) ==
    Then(gettarinfo(tf, w, t, name, arcname, env.hostmtime), LAMBDA g :
    IF g.tarinfo.type = "unsupported" THEN tf
    ELSE Then(filter_virtfs_attrs(g.tf, w, t, g.tarinfo, dir_name, mtime, env), LAMBDA f :
         IF f.err # "" THEN [f.tf EXCEPT !.err = f.err]
         ELSE addfile(f.tf, w, t, name, f.tarinfo)))

RECURSIVE _add_directory_to_tarfile(_, _, _, _, _, _, _)
RECURSIVE AddEntries(_, _, _, _, _, _, _, _)
_add_directory_to_tarfile(tf, w, t, dir_name, dir_arcname, mtime, env) ==
    AddEntries(tf, w, t, dir_name, dir_arcname, mtime, env,
               sorted(listdir(w, t, dir_name, env.order)))

\* the loop of lines 297-309 over the sorted names
AddEntries(tf, w, t, dir_name, dir_arcname, mtime, env, names) ==
    IF tf.err # "" \/ names = <<>> THEN tf
    ELSE LET filename == Head(names)
             name     == dir_name \o <<filename>>
             arcname  == dir_arcname \o <<filename>>
         IN  IF filename = VIRTFS_META_DIR
             THEN AddEntries(tf, w, t, dir_name, dir_arcname, mtime, env, Tail(names))
             ELSE Then(add(tf, w, t, name, arcname, dir_name, mtime, env), LAMBDA tf1 :
                  Then(IF tf1.err = "" /\ isdir(w, t, name) /\ ~islink(w, t, name)
                       THEN _add_directory_to_tarfile(tf1, w, t, name, arcname, mtime, env)
                       ELSE tf1, LAMBDA tf2 :
                  AddEntries(tf2, w, t, dir_name, dir_arcname, mtime, env, Tail(names))))

\* lines 382-394: the artifact file; gz is the gzip header's timestamp, when
\* there is a gzip envelope.  root, time, fault and host record the call and
\* what the host contributed to the pass.
collect_artifact(w, t, compress, time, env) ==
    Then(_add_directory_to_tarfile(NewTarFile, w, t, <<>>, <<>>, time, env), LAMBDA tf :
        [written |-> TRUE, root |-> t, time |-> time, fault |-> env.fault,
         host    |-> env.hostmtime,
         gz      |-> IF compress THEN <<time>> ELSE <<>>,
         members |-> tf.members,
         err     |-> tf.err])

(***************************************************************************)
(* The extractor, lines 193-262, 312-325 and 404-412, with TarFile.extract *)
(* as it uses it.                                                          *)
(***************************************************************************)
TypeBits(type) ==
    CASE type \in {REGTYPE, LNKTYPE} -> S_IFREG
      [] type = DIRTYPE  -> S_IFDIR
      [] type = FIFOTYPE -> S_IFIFO
      [] type = SYMTYPE  -> S_IFLNK
      [] type = CHRTYPE  -> S_IFCHR
      [] type = BLKTYPE  -> S_IFBLK
      [] OTHER           -> 0

_extract_virtfs_attrs(tarinfo) ==
    LET stmd  == BitOr(tarinfo.mode, TypeBits(tarinfo.type))
        attrs == (VIRTFS_UID_KEY :> tarinfo.uid) @@ (VIRTFS_GID_KEY :> tarinfo.gid)
                 @@ (VIRTFS_MODE_KEY :> stmd)
    IN  IF tarinfo.type \in {CHRTYPE, BLKTYPE}
        THEN attrs @@ (VIRTFS_RDEV_KEY :>
                          _dev_from_major_minor(tarinfo.devmajor, tarinfo.devminor))
        ELSE attrs

\* pwd.getpwnam(name)[2] and grp.getgrnam(name)[2], or the default where no
\* account has the name
getpwnam(w, name, default) ==
    IF \E u \in DOMAIN w.ident.passwd : w.ident.passwd[u] = name
    THEN CHOOSE u \in DOMAIN w.ident.passwd : w.ident.passwd[u] = name
    ELSE default

getgrnam(w, name, default) ==
    IF \E g \in DOMAIN w.ident.group : w.ident.group[g] = name
    THEN CHOOSE g \in DOMAIN w.ident.group : w.ident.group[g] = name
    ELSE default

\* TarFile.chown: only the superuser changes the owner, to the accounts named
chown(w, t, p, tarinfo) ==
    IF w.ident.euid # 0 THEN w
    ELSE [w EXCEPT !.inode[w.dent[t][p]].uid = getpwnam(w, tarinfo.uname, tarinfo.uid),
                   !.inode[w.dent[t][p]].gid = getgrnam(w, tarinfo.gname, tarinfo.gid)]

\* os.mkdir(p, 0700), an existing entry being left as it is
makedir(w, t, p) ==
    IF exists(w, t, p) THEN w
    ELSE LET i == FreshIno(w)
         IN  [w EXCEPT !.dent[t] = @ @@ (p :> i),
                       !.inode = @ @@ (i :> [mode |-> S_IFDIR + 448, uid |-> w.ident.euid,
                                              gid |-> w.ident.egid, rdev |-> 0,
                                              data |-> <<>>])]

\* TarFile.makefile
makefile(w, t, p, data) ==
    IF exists(w, t, p) /\ isdir(w, t, p) THEN Raise(w, "IOError.EISDIR")
    ELSE create(w, t, p, data)

\* TarFile.makelink of a hardlink member: a link to the extracted target, or
\* a copy of the target member where the target is not on disk
makelink(w, t, p, tarinfo, members) ==
    IF exists(w, t, tarinfo.linkname)
    THEN IF exists(w, t, p) /\ isdir(w, t, p) THEN Raise(w, "OSError.EISDIR")
         ELSE LET w1 == IF exists(w, t, p) THEN unlink(w, t, p) ELSE w
              IN  IF exists(w1, t, tarinfo.linkname)
                  THEN [w1 EXCEPT !.dent[t] = @ @@ (p :> w1.dent[t][tarinfo.linkname])]
                  ELSE Raise(w1, "OSError.ENOENT")
    ELSE IF \E i \in DOMAIN members : members[i].name = tarinfo.linkname
    THEN makefile(w, t, p,
                  members[CHOOSE i \in DOMAIN members :
                              members[i].name = tarinfo.linkname].data)
    ELSE Raise(w, "KeyError")

\* TarFile.extract(tarinfo, directory) with the default errorlevel, which
\* reports a failure to change the mode without raising it
extract(w, t, tarinfo, members) ==
    LET p == tarinfo.name
    IN  Then(CASE tarinfo.type = REGTYPE -> makefile(w, t, p, tarinfo.data)
               [] tarinfo.type = DIRTYPE -> makedir(w, t, p)
               [] tarinfo.type = LNKTYPE -> makelink(w, t, p, tarinfo, members),
             LAMBDA w1 :
        IF w1.err # "" THEN w1
        ELSE Then(chown(w1, t, p, tarinfo), LAMBDA w2 :
             Then(chmod(w2, t, p, tarinfo.mode), LAMBDA w3 :
             IF w3.err # "" THEN w2 ELSE w3)))

_extract_tarinfo_into_staging(w, t, tarinfo, members) ==
    IF ~HasPw(w, w.ident.euid) \/ ~HasPw(w, w.ident.egid) THEN Raise(w, "KeyError")
    ELSE
    LET owned == [tarinfo EXCEPT !.uid = w.ident.euid, !.gid = w.ident.egid,
                                 !.uname = getpwuid(w, w.ident.euid),
                                 !.gname = getpwuid(w, w.ident.egid),
                                 !.mode = 384]
        fullpath == tarinfo.name
    IN  IF tarinfo.type \in {REGTYPE, LNKTYPE} THEN extract(w, t, owned, members)
        ELSE IF tarinfo.type = DIRTYPE
        THEN extract(w, t, [owned EXCEPT !.mode = 448], members)
        ELSE IF tarinfo.type = SYMTYPE
        THEN IF exists(w, t, fullpath) /\ isdir(w, t, fullpath)
             THEN Raise(w, "IOError.EISDIR")
             ELSE chmod(create(w, t, fullpath, tarinfo.linkname), t, fullpath, 384)
        ELSE IF tarinfo.type \in {CHRTYPE, BLKTYPE, FIFOTYPE}
        THEN extract(w, t, [owned EXCEPT !.type = REGTYPE, !.devmajor = 0,
                                         !.devminor = 0], members)
        ELSE w

_stage_tarinfo_to_directory(w, t, tarinfo, members) ==
    LET dir_name == Parent(tarinfo.name)
        filename == Basename(tarinfo.name)
        attrs    == _extract_virtfs_attrs(tarinfo)
    IN  Then(_write_virtfs_attrs(w, t, attrs, dir_name, filename), LAMBDA w1 :
        IF w1.err # "" THEN w1
        ELSE _extract_tarinfo_into_staging(w1, t, tarinfo, members))

RECURSIVE StageMembers(_, _, _, _)
StageMembers(w, t, members, i) ==
    IF w.err # "" \/ i > Len(members) THEN w
    ELSE Then(_stage_tarinfo_to_directory(w, t, members[i], members), LAMBDA w1 :
         StageMembers(w1, t, members, i + 1))

\* tarfile.open(filename, 'r:gz') refuses a stream that has no gzip envelope
stage_artifact(w, t, archive, compress) ==
    IF compress /\ archive.gz = <<>> THEN Raise(w, "ReadError")
    ELSE StageMembers(w, t, archive.members, 1)

(***************************************************************************)
(* Initial states: a host tree that has not been staged, an empty          *)
(* destination, no artifact, and the identity of the process.              *)
(***************************************************************************)
\* the entries a tree is drawn from: a, b (a directory), b/c and d
FileKinds == {"regX", "regY", "lnk", "fifo", "chr", "blk", "sock"}

\* stat data and content of an entry of each kind; regX entries of one tree are
\* links to one inode
KindInode(kind, owner) ==
    LET n == CASE kind = "regX" -> [mode |-> S_IFREG + 420, rdev |-> 0, data |-> <<"x">>]
               [] kind = "regY" -> [mode |-> S_IFREG + 493, rdev |-> 0, data |-> <<"y", "y">>]
               [] kind = "lnk"  -> [mode |-> S_IFLNK + 511, rdev |-> 0, data |-> <<"t">>]
               [] kind = "fifo" -> [mode |-> S_IFIFO + 420, rdev |-> 0, data |-> <<>>]
               [] kind = "chr"  -> [mode |-> S_IFCHR + 438, rdev |-> 1281, data |-> <<>>]
               [] kind = "blk"  -> [mode |-> S_IFBLK + 432, rdev |-> 66305, data |-> <<>>]
               [] kind = "sock" -> [mode |-> S_IFSOCK + 493, rdev |-> 0, data |-> <<>>]
               [] kind = "dir"  -> [mode |-> S_IFDIR + 493, rdev |-> 0, data |-> <<>>]
    IN  n @@ [uid |-> owner[1], gid |-> owner[2]]

\* a tree given the kind of each of its entries ("none": no such entry)
TreeSlots == <<(<<"a">>), (<<"b">>), (<<"b", "c">>), (<<"d">>)>>

SlotIno(k, kind) == IF kind = "regX" THEN 1 ELSE k + 1

TreeDent(kinds) ==
    [p \in {TreeSlots[k] : k \in {j \in DOMAIN TreeSlots : kinds[j] # "none"}} |->
        LET k == CHOOSE j \in DOMAIN TreeSlots : TreeSlots[j] = p
        IN  SlotIno(k, kinds[k])]

TreeInodes(kinds, owner) ==
    [i \in {SlotIno(k, kinds[k]) : k \in {j \in DOMAIN TreeSlots : kinds[j] # "none"}} |->
        LET k == CHOOSE j \in DOMAIN TreeSlots :
                    kinds[j] # "none" /\ SlotIno(j, kinds[j]) = i
        IN  KindInode(kinds[k], owner)]

\* the trees: links of one file in and across directories, alone and around
\* another file; each special file; an empty directory; trees without
\* directories; the empty tree
TreeKinds ==
    {<<"regX", "dir", "regX", "regX">>,
     <<"regX", "dir", "regY", "regX">>,
     <<"regX", "dir", "none", "regX">>,
     <<"none", "dir", "regX", "regX">>,
     <<"regX", "dir", "chr", "sock">>,
     <<"lnk", "dir", "chr", "blk">>,
     <<"lnk", "dir", "regX", "none">>,
     <<"fifo", "dir", "regY", "sock">>,
     <<"fifo", "dir", "none", "none">>,
     <<"none", "dir", "regY", "none">>,
     <<"lnk", "none", "none", "regX">>,
     <<"fifo", "none", "none", "blk">>,
     <<"regX", "none", "none", "none">>,
     <<"none", "none", "none", "blk">>,
     <<"none", "none", "none", "none">>}

\* the account databases: names of the users and of the groups
RootName == <<"r">>

UserName == <<"u">>

Accounts == [euid |-> 1000, egid |-> 1000,
             passwd |-> (0 :> RootName) @@ (1000 :> UserName),
             group  |-> (0 :> RootName) @@ (1000 :> UserName)]

Ascending == <<VIRTFS_META_DIR, "a", "b", "c", "d">>

Descending == <<"d", "c", "b", "a", VIRTFS_META_DIR>>

IsEmpty(t) == DOMAIN dent[t] = {} /\ metadirs[t] = {}

\* a call: the entry point, the tree and the path it was given, the record it
\* was to write (for a collection: the host modification time the pass before
\* it met), its error, and what it found: the tree empty, a record for the
\* path, the parameters of the collection before it on an unchanged tree
NoCall == [op |-> "none", tree |-> "src", path |-> <<>>, arg |-> <<>>, err |-> "",
           empty |-> FALSE, had |-> FALSE, rerun |-> FALSE]

Call(op, t, p, arg) ==
    [op |-> op, tree |-> t, path |-> p, arg |-> arg, err |-> "",
     empty |-> IsEmpty(t), had |-> p \in DOMAIN meta[t], rerun |-> FALSE]

NoFault == [kind |-> "none", path |-> <<>>]

NoArchive == [written |-> FALSE, root |-> "src", time |-> 0, fault |-> NoFault,
              host |-> 0, gz |-> <<>>, members |-> <<>>, err |-> ""]

InitDev ==
    /\ devIn = <<0, 0>>
    /\ devOut = <<>>
    /\ running = <<>>

\* the host tree of the given kinds owned by owner, the destination empty
RawWorld(ks, owner, id) ==
    [dent |-> [t \in Trees |-> IF t = "src" THEN TreeDent(ks) ELSE <<>>],
     inode |-> TreeInodes(ks, owner),
     meta |-> [t \in Trees |-> <<>>],
     metadirs |-> [t \in Trees |-> {}],
     ident |-> id,
     err |-> ""]

InitWorld(w) ==
    /\ dent = w.dent
    /\ inode = w.inode
    /\ meta = w.meta
    /\ metadirs = w.metadirs
    /\ ident = w.ident
    /\ arc = NoArchive
    /\ unchanged = FALSE
    /\ last = NoCall
    /\ nops = 0

\* the source tree is a host tree as it is found, or as an earlier
\* stage_directory has left it
InitWorlds ==
    {Then(RawWorld(ks, <<Accounts.euid, Accounts.egid>>, Accounts), LAMBDA raw :
          IF staged THEN stage_directory(raw, "src", <<>>, Ascending) ELSE raw) :
        ks \in TreeKinds, staged \in BOOLEAN}

Init ==
    /\ \E w \in InitWorlds : InitWorld(w)
    /\ InitDev

(***************************************************************************)
(* The entry points.                                                       *)
(***************************************************************************)
Paths == {TreeSlots[k] : k \in DOMAIN TreeSlots}

Dirs == {<<>>, <<"b">>}

ListingSample == {Ascending, Descending}

Timestamps == {MAGIC_TIMESTAMP, 1}

\* what the host may contribute to a collection pass: the listing order and
\* the modification times, and an I/O fault on an entry that has a record
Envs(t) ==
    {[order |-> Ascending, hostmtime |-> 7, fault |-> NoFault],
     [order |-> Descending, hostmtime |-> 8, fault |-> NoFault]}
    \cup {[order |-> Ascending, hostmtime |-> 7, fault |-> [kind |-> k, path |-> p]] :
            k \in {"attrs", "link"}, p \in DOMAIN meta[t]}

\* records written to the store by the guest through the virtfs mount
GuestAttrs ==
    {(VIRTFS_UID_KEY :> 1000) @@ (VIRTFS_GID_KEY :> 1000) @@ (VIRTFS_MODE_KEY :> S_IFREG + 416),
     (VIRTFS_UID_KEY :> 0) @@ (VIRTFS_GID_KEY :> 5) @@ (VIRTFS_MODE_KEY :> S_IFCHR + 400)
        @@ (VIRTFS_RDEV_KEY :> 1025)}

TreeState(w, t) == <<w.dent[t], w.meta[t], w.metadirs[t],
                     [i \in {w.dent[t][p] : p \in DOMAIN w.dent[t]} |-> w.inode[i]]>>

Commit(w, call) ==
    /\ dent' = w.dent
    /\ inode' = w.inode
    /\ meta' = w.meta
    /\ metadirs' = w.metadirs
    /\ last' = [call EXCEPT !.err = w.err]
    /\ nops' = nops + 1
    /\ unchanged' = (unchanged /\ TreeState(w, arc.root) = TreeState(World, arc.root))
    /\ UNCHANGED <<arc, ident, devvars, running>>

StageFile(t, p, slash) ==
    /\ nops < MaxOps
    /\ exists(World, t, p)
    /\ slash => isdir(World, t, p)
    /\ \E w \in {stage_file(World, t, p, slash)} : Commit(w, Call("stage_file", t, p, <<>>))

StageDirectory(t, dir, order) ==
    /\ nops < MaxOps
    /\ \E w \in {stage_directory(World, t, dir, order)} : Commit(w, Call("stage_directory", t, dir, <<>>))

\* AttributeStore.write by a guest that has created a file: the host keeps a
\* regular file with one link for it
Write(t, p, attrs) ==
    /\ nops < MaxOps
    /\ exists(World, t, p)
    /\ S_ISREG(lstat(World, t, p).st_mode)
    /\ lstat(World, t, p).st_nlink = 1
    /\ \E w \in {_write_virtfs_attrs(World, t, attrs, Parent(p), Basename(p))} :
          Commit(w, Call("write", t, p, SidecarLines(attrs)))

CollectArtifact(t, compress, time, env) ==
    /\ nops < MaxOps
    /\ env.fault # NoFault => compress /\ time = MAGIC_TIMESTAMP
    /\ arc' = collect_artifact(World, t, compress, time, env)
    /\ unchanged' = TRUE
    /\ last' = [Call("collect_artifact", t, <<>>, <<arc.host>>) EXCEPT
                    !.err = arc'.err,
                    !.rerun = /\ arc.written /\ unchanged /\ arc.root = t
                              /\ arc.time = time /\ (arc.gz # <<>>) = compress
                              /\ arc.fault = NoFault /\ env.fault = NoFault]
    /\ nops' = nops + 1
    /\ UNCHANGED <<dent, inode, meta, metadirs, ident, devvars, running>>

\* the directory given to stage_artifact is empty or a staging area: it holds
\* regular files and directories only
StageArtifact(t, compress) ==
    /\ nops < MaxOps
    /\ arc.written /\ arc.err = ""
    /\ \A p \in DOMAIN dent[t] :
          S_ISREG(inode[dent[t][p]].mode) \/ S_ISDIR(inode[dent[t][p]].mode)
    /\ \E w \in {stage_artifact(World, t, arc, compress)} : Commit(w, Call("stage_artifact", t, <<>>, <<>>))

Next ==
    \/ \E p \in Paths, slash \in BOOLEAN : StageFile("src", p, slash)
    \/ \E dir \in Dirs, order \in ListingSample : StageDirectory("src", dir, order)
    \/ \E p \in Paths, attrs \in GuestAttrs : Write("src", p, attrs)
    \/ \E t \in Trees, compress \in BOOLEAN, time \in Timestamps :
          \E env \in Envs(t) : CollectArtifact(t, compress, time, env)
    \/ \E t \in Trees, compress \in BOOLEAN : StageArtifact(t, compress)

Spec == Init /\ [][Next]_vars

(***************************************************************************)
(* The device-number functions on their own: every major and minor up to   *)
(* the bounds is packed and unpacked again.                                *)
(***************************************************************************)
IdleWorld == RawWorld([k \in DOMAIN TreeSlots |-> "none"], <<0, 0>>, Accounts)

InitPack ==
    /\ devIn \in (0..MaxMajor) \X (0..MaxMinor)
    /\ devOut = <<>>
    /\ running = <<>>
    /\ InitWorld(IdleWorld)

Pack ==
    /\ devOut = <<>>
    /\ devOut' = LET rdev == _dev_from_major_minor(devIn[1], devIn[2])
                 IN  <<rdev, _dev_major(rdev), _dev_minor(rdev)>>
    /\ UNCHANGED <<devIn, fsvars, running>>

NextPack == Pack

SpecDev == InitPack /\ [][NextPack]_vars

(***************************************************************************)
(* The same entry points for a process of any identity: the effective uid  *)
(* and gid, the names the account databases give them, and the owner of    *)
(* the host tree.                                                          *)
(***************************************************************************)
GroupName == <<"g">>

StaffName == <<"s">>

Identity(eu, eg, p100, g1000) ==
    [euid |-> eu, egid |-> eg,
     passwd |-> (0 :> RootName) @@ (1000 :> UserName) @@ p100,
     group  |-> (0 :> RootName) @@ (100 :> GroupName) @@ (1000 :> g1000)]

\* a user whose group has the user's name, one whose group has another name,
\* one whose gid is the uid of no user, the superuser in a group whose gid is
\* the uid of a user of the group's name, and the superuser in a group whose
\* gid is the uid of a user that has the name of another group
Identities ==
    {Identity(1000, 1000, (100 :> GroupName), UserName),
     Identity(1000, 1000, (100 :> GroupName), StaffName),
     Identity(1000, 100, <<>>, UserName),
     Identity(0, 100, (100 :> GroupName), UserName),
     [Identity(0, 1000, <<>>, StaffName) EXCEPT !.group[100] = UserName]}

OwnTreeKinds ==
    {<<"lnk", "dir", "chr", "regX">>,
     <<"fifo", "dir", "regY", "blk">>}

\* the tree is the superuser's, or the process's own, raw or staged
OwnWorlds ==
    {Then(RawWorld(ks, IF how = "root" THEN <<0, 0>> ELSE <<id.euid, id.egid>>, id),
          LAMBDA raw :
          IF how = "staged" THEN stage_directory(raw, "src", <<>>, Ascending) ELSE raw) :
        ks \in OwnTreeKinds, id \in Identities, how \in {"root", "own", "staged"}}

InitOwn ==
    /\ \E w \in {x \in OwnWorlds : x.err = ""} : InitWorld(w)
    /\ InitDev

SpecOwn == InitOwn /\ [][Next]_vars

(***************************************************************************)
(* Properties.                                                             *)
(***************************************************************************)

\* C8: an rdev is the major in bits 8 to 15 and the minor in bits 0 to 7: it
\* decodes to its second and its first byte; a major and a minor below 256
\* encode to major * 256 + minor and decode to themselves; 5 and 1 encode to
\* 1281 and 1281 decodes to 5 and 1; a major above 255 does not decode to
\* itself.
DevicePacking ==
    devOut # <<>> =>
        LET major == devIn[1]
            minor == devIn[2]
            rdev  == devOut[1]
        IN  /\ devOut[2] = (rdev \div 256) % 256
            /\ devOut[3] = rdev % 256
            /\ (major <= 255 /\ minor <= 255) =>
                  /\ rdev = major * 256 + minor
                  /\ devOut[2] = major
                  /\ devOut[3] = minor
            /\ (major = 5 /\ minor = 1) => rdev = 1281
            /\ rdev = 1281 => (devOut[2] = 5 /\ devOut[3] = 1)
            /\ major > 255 => devOut[2] # major

DevicePacked == devIn = <<5, 1>> /\ devOut = <<1281, 5, 1>>

\* the member of the artifact archived under the name p
MemberOf(p) ==
    arc.members[CHOOSE i \in DOMAIN arc.members : arc.members[i].name = p]

Archived(p) == \E i \in DOMAIN arc.members : arc.members[i].name = p

\* C10: every member of an artifact, built from a record or from the stat
\* data alone, has the modification time collect_artifact was given, whatever
\* the host's; the gzip envelope, when there is one, has it too; the default
\* is 1321009871.
TimestampPinning ==
    /\ MAGIC_TIMESTAMP = 1321009871
    /\ arc.written =>
          /\ \A i \in DOMAIN arc.members : arc.members[i].mtime = arc.time
          /\ arc.gz # <<>> => arc.gz = <<arc.time>>

TimestampPinned ==
    /\ arc.written /\ unchanged /\ arc.err = ""
    /\ arc.time # arc.host /\ arc.time # MAGIC_TIMESTAMP
    /\ arc.gz # <<>>
    /\ \E p, q \in DOMAIN dent[arc.root] :
          /\ Archived(p) /\ p \in DOMAIN meta[arc.root]
          /\ Archived(q) /\ q \notin DOMAIN meta[arc.root]

\* C4: a record, once in the store, keeps its value through every call: no
\* write, stage_file, stage_directory, collect_artifact or stage_artifact
\* removes or changes it.
WriteOnce ==
    [][\A t \in Trees : \A p \in DOMAIN meta[t] :
          p \in DOMAIN meta'[t] /\ meta'[t][p] = meta[t][p]]_vars

SecondWriteIgnored ==
    /\ last.op = "write" /\ last.had /\ last.err = ""
    /\ meta[last.tree][last.path] # last.arg

\* C2: a collection that follows another of the same tree, unchanged since,
\* with the same timestamp and compress flag, produces the same members with
\* the same fields, the same envelope and the same outcome, whatever listing
\* order and host modification times the two passes met.
Determinism ==
    [][(last'.op = "collect_artifact" /\ last'.rerun) =>
          /\ arc'.members = arc.members
          /\ arc'.gz = arc.gz
          /\ arc'.err = arc.err]_vars

CollectedTwice ==
    /\ last.op = "collect_artifact" /\ last.rerun
    /\ last.arg # <<arc.host>>
    /\ arc.err = ""
    /\ Len(arc.members) >= 3

\* the record the store holds for p in tree t
RecordOf(t, p) == ParseLines(meta[t][p])

\* p is archived as a regular file: a regular file on disk whose record, if it
\* has one, gives it the regular type
RegularEntry(t, p) ==
    /\ p \in DOMAIN dent[t]
    /\ S_ISREG(inode[dent[t][p]].mode)
    /\ p \in DOMAIN meta[t] => S_ISREG(RecordOf(t, p)[VIRTFS_MODE_KEY])

\* the order of the traversal: a directory before its entries, the names of
\* one directory in sorted order
PathBefore(p, q) ==
    \/ Len(p) < Len(q) /\ SubSeq(q, 1, Len(p)) = p
    \/ \E k \in 1..Len(p) :
          /\ k <= Len(q)
          /\ SubSeq(p, 1, k - 1) = SubSeq(q, 1, k - 1)
          /\ NameRank(p[k]) < NameRank(q[k])

\* the regular entries of tree t on the inode of p
SameFile(t, p) == {q \in DOMAIN dent[t] : RegularEntry(t, q) /\ dent[t][q] = dent[t][p]}

FirstOf(t, p) == CHOOSE q \in SameFile(t, p) : \A r \in SameFile(t, p) \ {q} : PathBefore(q, r)

RdevIffDevice ==
    [][last'.op \in {"stage_file", "stage_directory", "stage_artifact"} =>
          \A p \in DOMAIN meta'[last'.tree] \ DOMAIN meta[last'.tree] :
              LET attrs == ParseLines(meta'[last'.tree][p])
              IN  (VIRTFS_RDEV_KEY \in DOMAIN attrs) <=>
                      (S_ISCHR(attrs[VIRTFS_MODE_KEY]) \/ S_ISBLK(attrs[VIRTFS_MODE_KEY]))]_vars

\* the pass that wrote the artifact met its fault: the entry of the fault is
\* one the traversal reads the record of, and for a fault of the surrogate the
\* record is a symlink's
FaultMet ==
    LET t == arc.root
        p == arc.fault.path
    IN  /\ arc.written /\ unchanged /\ arc.fault # NoFault
        /\ p \in DOMAIN dent[t] /\ p \in DOMAIN meta[t]
        /\ \A k \in 1..(Len(p) - 1) : isdir(World, t, SubSeq(p, 1, k))
        /\ ~(S_IFMT(inode[dent[t][p]].mode) = S_IFSOCK)
        /\ arc.fault.kind = "link" =>
              /\ S_ISLNK(RecordOf(t, p)[VIRTFS_MODE_KEY])
              /\ S_ISREG(inode[dent[t][p]].mode)

\* C7: a pass that fails to open the sidecar file of an entry for a reason
\* other than its absence, or fails to read the surrogate of a symlink, ends
\* in an error and does not archive the entry.
ErrorPropagation ==
    FaultMet => (arc.err # "" /\ ~Archived(arc.fault.path))

\* an entry of a staged tree: it has a record, of a supported type
Staged(t, p) ==
    /\ p \in DOMAIN meta[t]
    /\ TypeOfMode(RecordOf(t, p)[VIRTFS_MODE_KEY]) # "unsupported"
          \/ S_ISREG(RecordOf(t, p)[VIRTFS_MODE_KEY])

\* the artifact of the staged tree src has been staged into the empty dst
RoundTripped ==
    /\ last.op = "stage_artifact" /\ last.tree = "dst" /\ last.empty /\ last.err = ""
    /\ arc.written /\ arc.root = "src" /\ unchanged /\ arc.fault = NoFault
    /\ \A p \in DOMAIN dent["src"] : Staged("src", p)

\* C1: after the artifact of a staged tree has been staged into an empty
\* destination, every entry of the tree has in the destination the record it
\* has in the tree (mode with its type, uid, gid, and rdev present or absent
\* alike), and the content it has in the tree when it is a regular file or a
\* symlink.
RoundTrip ==
    RoundTripped =>
        \A p \in DOMAIN dent["src"] :
            /\ p \in DOMAIN meta["dst"] /\ p \in DOMAIN dent["dst"]
            /\ RecordOf("dst", p) = RecordOf("src", p)
            /\ (S_ISREG(RecordOf("src", p)[VIRTFS_MODE_KEY])
                    \/ S_ISLNK(RecordOf("src", p)[VIRTFS_MODE_KEY])) =>
                  inode[dent["dst"][p]].data = inode[dent["src"][p]].data

\* the traversal of tree t comes to p and archives it: its directories are
\* directories on disk, and it is of a type the archive has
Traversed(t, p) ==
    /\ p \in DOMAIN dent[t]
    /\ \A k \in 1..(Len(p) - 1) : isdir(World, t, SubSeq(p, 1, k))
    /\ S_IFMT(inode[dent[t][p]].mode) # S_IFSOCK

\* the owner an entry has for the archive before the normalization: that of
\* its record, named by the decimal strings of the ids, or else that of its
\* stat data, named by the account databases
ArchiveOwner(t, p) ==
    IF p \in DOMAIN meta[t]
    THEN LET attrs == RecordOf(t, p)
         IN  <<attrs[VIRTFS_UID_KEY], attrs[VIRTFS_GID_KEY],
               str(attrs[VIRTFS_UID_KEY]), str(attrs[VIRTFS_GID_KEY])>>
    ELSE LET n == inode[dent[t][p]]
         IN  <<n.uid, n.gid,
               IF n.uid \in DOMAIN ident.passwd THEN ident.passwd[n.uid] ELSE <<>>,
               IF n.gid \in DOMAIN ident.group THEN ident.group[n.gid] ELSE <<>>>>

\* the effective identity of the process: its uid and gid, the user name of
\* the uid and the group name of the gid
EffectiveIdentity ==
    <<ident.euid, ident.egid, ident.passwd[ident.euid], ident.group[ident.egid]>>

\* C5: a pass archives every entry whose owner for the archive is the
\* effective identity of the process with uid 0, gid 0 and the names "0",
\* whatever the names of the users and of the groups are.
OwnershipNormalization ==
    (arc.written /\ unchanged /\ arc.fault = NoFault /\ arc.err \in {"", "KeyError"}) =>
        \A p \in DOMAIN dent[arc.root] :
            (Traversed(arc.root, p) /\ ArchiveOwner(arc.root, p) = EffectiveIdentity) =>
                /\ Archived(p)
                /\ MemberOf(p).uid = 0 /\ MemberOf(p).gid = 0
                /\ MemberOf(p).uname = <<"0">> /\ MemberOf(p).gname = <<"0">>

\* an entry the pass archives from its stat data: it has no record
Native(t, p) == Traversed(t, p) /\ p \notin DOMAIN meta[t]

\* the member has the type, the permission bits and, when it holds the
\* content of a regular file, the size that lstat gives the entry
StatPassedThrough(t, p) ==
    LET n == inode[dent[t][p]]
        m == MemberOf(p)
    IN  /\ Archived(p)
        /\ IF S_ISREG(n.mode) THEN m.type \in {REGTYPE, LNKTYPE}
           ELSE m.type = TypeOfMode(n.mode)
        /\ m.mode = S_IMODE(n.mode)
        /\ m.type = REGTYPE => m.size = Len(n.data)

ExtractionOwnership ==
    (last.op = "stage_artifact" /\ last.empty) =>
        \A p \in DOMAIN meta[last.tree] :
            /\ Archived(p)
            /\ RecordOf(last.tree, p)[VIRTFS_UID_KEY] = MemberOf(p).uid
            /\ RecordOf(last.tree, p)[VIRTFS_GID_KEY] = MemberOf(p).gid
            /\ p \in DOMAIN dent[last.tree]
            /\ inode[dent[last.tree][p]].uid = ident.euid
            /\ inode[dent[last.tree][p]].gid = ident.egid
            /\ S_IMODE(inode[dent[last.tree][p]].mode) =
                  IF MemberOf(p).type = DIRTYPE THEN 448 ELSE 384

(***************************************************************************)
(* What a staging call leaves on the host.                                 *)
(***************************************************************************)
\* the entries a call processes, read in the state the call starts from:
\* the path given to stage_file, every entry below the directory given to
\* stage_directory, every member of the artifact given to stage_artifact
Processed(call) ==
    CASE call.op = "stage_file" -> {call.path}
      [] call.op = "stage_directory" ->
            {p \in DOMAIN dent[call.tree] :
                /\ Len(p) > Len(call.path)
                /\ SubSeq(p, 1, Len(call.path)) = call.path}
      [] call.op = "stage_artifact" -> {p \in Paths : Archived(p)}
      [] OTHER -> {}

\* the type a processed entry has when the call starts: that of the archive
\* member, or that of the lstat of the host entry
TrueType(call, p) ==
    IF call.op = "stage_artifact" THEN MemberOf(p).type
    ELSE TypeOfMode(inode[dent[call.tree][p]].mode)

\* the target text of a processed symlink
LinkText(call, p) ==
    IF call.op = "stage_artifact" THEN MemberOf(p).linkname
    ELSE inode[dent[call.tree][p]].data

\* C12: a step of stage_file, stage_directory or stage_artifact that ends
\* without error leaves every entry it processed on the host as a regular
\* file of permission 0600 or a directory of permission 0700; the surrogate
\* of a symlink holds the link target text and the surrogate of a fifo or a
\* device is empty
StagedEntryInvariant ==
    [][last'.err = "" =>
        \A p \in Processed(last') :
            /\ p \in DOMAIN dent'[last'.tree]
            /\ LET n == inode'[dent'[last'.tree][p]]
               IN  /\ \/ S_ISREG(n.mode) /\ S_IMODE(n.mode) = 384
                      \/ S_ISDIR(n.mode) /\ S_IMODE(n.mode) = 448
                   /\ TrueType(last', p) = SYMTYPE => n.data = LinkText(last', p)
                   /\ TrueType(last', p) \in {FIFOTYPE, CHRTYPE, BLKTYPE} => n.data = <<>>]_vars

(***************************************************************************)
(* The record stage_file leaves.                                           *)
(***************************************************************************)
\* C13 as stated: a step of stage_file that returns leaves for the path a
\* record of uid 0, gid 0 and the mode the lstat of the entry had when the
\* call started, whatever the store held before
StageRecordContentAnyStore ==
    [][(last'.op = "stage_file" /\ last'.err = "") =>
        /\ last'.path \in DOMAIN meta'[last'.tree]
        /\ LET attrs == ParseLines(meta'[last'.tree][last'.path])
           IN  /\ attrs[VIRTFS_UID_KEY] = 0
               /\ attrs[VIRTFS_GID_KEY] = 0
               /\ attrs[VIRTFS_MODE_KEY] = inode[dent[last'.tree][last'.path]].mode]_vars

\* C13: a step of stage_file that returns, for a path that had no record
\* when the call started, leaves for the path a record of uid 0, gid 0 and
\* the mode, type bit and permission bits, that the lstat of the entry had
\* when the call started
StageRecordContent ==
    [][(last'.op = "stage_file" /\ last'.err = "" /\ ~last'.had) =>
        /\ last'.path \in DOMAIN meta'[last'.tree]
        /\ LET attrs == ParseLines(meta'[last'.tree][last'.path])
           IN  /\ attrs[VIRTFS_UID_KEY] = 0
               /\ attrs[VIRTFS_GID_KEY] = 0
               /\ attrs[VIRTFS_MODE_KEY] = inode[dent[last'.tree][last'.path]].mode]_vars

\* stage_file has staged a symlink that had no record: the record is of type
\* symlink and the entry is a regular file
SymlinkStaged ==
    /\ last.op = "stage_file" /\ last.err = "" /\ ~last.had
    /\ S_ISLNK(RecordOf(last.tree, last.path)[VIRTFS_MODE_KEY])
    /\ S_ISREG(inode[dent[last.tree][last.path]].mode)

(***************************************************************************)
(* Entries of a type that has no representation.                           *)
(***************************************************************************)
\* C14: a step of stage_file or stage_directory that processes an entry of
\* an unsupported type (a socket) ends with an error and writes no record
\* for the entry, and a step of collect_artifact over a tree that holds an
\* entry whose record has no supported type bit, or a socket without a
\* record, ends with an error
UnsupportedTypeFatal ==
    [][
        /\ last'.op \in {"stage_file", "stage_directory"} =>
            \A p \in Processed(last') :
                S_IFMT(inode[dent[last'.tree][p]].mode) = S_IFSOCK =>
                    /\ last'.err # ""
                    /\ p \notin DOMAIN meta'[last'.tree] \ DOMAIN meta[last'.tree]
        /\ last'.op = "collect_artifact" =>
            \A p \in DOMAIN dent[last'.tree] :
                (IF p \in DOMAIN meta[last'.tree]
                 THEN S_IFMT(RecordOf(last'.tree, p)[VIRTFS_MODE_KEY]) = S_IFSOCK
                 ELSE S_IFMT(inode[dent[last'.tree][p]].mode) = S_IFSOCK)
                    => arc'.err # ""
      ]_vars

(***************************************************************************)
(* The order of the members of an artifact.                                *)
(***************************************************************************)
\* p is a proper prefix of q: q is in the subtree of the directory p
Below(p, q) == Len(p) < Len(q) /\ SubSeq(q, 1, Len(p)) = p

\* C15: the members of an artifact are in pre-order with the entries of each
\* directory in ascending order of their names: a member precedes another
\* exactly as its path precedes the other's, every member between a
\* directory and a member of its subtree is in that subtree, and no member's
\* path has the reserved name of the metadata directory as a component
CollectionOrder ==
    arc.written =>
        /\ \A i, j \in DOMAIN arc.members :
              i < j => PathBefore(arc.members[i].name, arc.members[j].name)
        /\ \A i, j \in DOMAIN arc.members :
              Below(arc.members[i].name, arc.members[j].name) =>
                  /\ i < j
                  /\ \A k \in (i + 1)..j : Below(arc.members[i].name, arc.members[k].name)
        /\ \A i \in DOMAIN arc.members :
              \A k \in DOMAIN arc.members[i].name :
                  arc.members[i].name[k] # VIRTFS_META_DIR

\* a staged tree with metadata directories at both levels has been collected:
\* a, the directory b, b/c below it and then d
NestedCollected ==
    /\ last.op = "collect_artifact" /\ last.err = ""
    /\ {<<>>, <<"b">>} \subseteq metadirs[last.tree]
    /\ [i \in DOMAIN arc.members |-> arc.members[i].name]
          = <<<<"a">>, <<"b">>, <<"b", "c">>, <<"d">>>>

(***************************************************************************)
(* The member collect_artifact writes for an entry that has a record.      *)
(***************************************************************************)
\* the member types the type bits of a record mode stand for
RecordTypes(stmd) ==
    IF S_ISREG(stmd) THEN {REGTYPE, LNKTYPE} ELSE {TypeOfMode(stmd)}

\* C16: after collect_artifact, the member of an entry that has a record has
\* the type of the record's type bits, the uid and gid of the record, for a
\* symlink the content of the surrogate as linkname, for a device the major
\* and minor numbers that are the high and the low byte of the record's
\* rdev, and no size and no content unless it is a regular member
TypeReconstruction ==
    last.op = "collect_artifact" =>
        \A i \in DOMAIN arc.members :
            LET m == arc.members[i]
            IN  m.name \in DOMAIN meta[last.tree] =>
                    LET attrs == RecordOf(last.tree, m.name)
                    IN  /\ m.type \in RecordTypes(attrs[VIRTFS_MODE_KEY])
                        /\ m.uid = attrs[VIRTFS_UID_KEY]
                        /\ m.gid = attrs[VIRTFS_GID_KEY]
                        /\ m.type = SYMTYPE =>
                              m.linkname = inode[dent[last.tree][m.name]].data
                        /\ m.type \in {CHRTYPE, BLKTYPE} =>
                              /\ m.devmajor = (attrs[VIRTFS_RDEV_KEY] \div 256) % 256
                              /\ m.devminor = attrs[VIRTFS_RDEV_KEY] % 256
                        /\ m.type # REGTYPE => m.size = 0 /\ m.data = <<>>

(***************************************************************************)
(* What stage_directory covers.                                            *)
(***************************************************************************)
\* C17: a step of stage_directory that returns leaves a record, in the store
\* of its parent directory, for every entry below the directory at every
\* depth; it creates no record for the directory itself, for an entry
\* outside the directory or for a metadata directory or an entry in one, and
\* it leaves no symlink below the directory that it could descend through
StageDirectoryCoverage ==
    [][(last'.op = "stage_directory" /\ last'.err = "") =>
        /\ \A p \in Processed(last') :
              /\ p \in DOMAIN meta'[last'.tree]
              /\ Parent(p) \in metadirs'[last'.tree]
              /\ ~S_ISLNK(inode'[dent'[last'.tree][p]].mode)
        /\ DOMAIN meta'[last'.tree] \ DOMAIN meta[last'.tree] \subseteq Processed(last')
        /\ last'.path \notin DOMAIN meta'[last'.tree] \ DOMAIN meta[last'.tree]
        /\ \A q \in DOMAIN meta'[last'.tree] :
              \A k \in DOMAIN q : q[k] # VIRTFS_META_DIR]_vars

\* stage_directory of the whole tree has returned: the nested entry b/c has
\* a record in the store of b, and the symlink a has one
TreeStaged ==
    /\ last.op = "stage_directory" /\ last.path = <<>> /\ last.err = ""
    /\ <<"b", "c">> \in DOMAIN meta[last.tree]
    /\ <<"b">> \in metadirs[last.tree]
    /\ <<"a">> \in DOMAIN meta[last.tree]
    /\ S_ISLNK(RecordOf(last.tree, <<"a">>)[VIRTFS_MODE_KEY])

(***************************************************************************)
(* The sidecar file format: records written to an empty store and read     *)
(* back.                                                                   *)
(***************************************************************************)
Record(uid, gid, mode) ==
    (VIRTFS_UID_KEY :> uid) @@ (VIRTFS_GID_KEY :> gid) @@ (VIRTFS_MODE_KEY :> mode)

\* records as the stager and the extractor build them, lines 336-342 and
\* 212-219: with an rdev for devices, and from the stager for fifos too
SampleAttrs ==
    {Record(0, 0, S_IFREG + 420),
     Record(1000, 100, S_IFREG + 493),
     Record(0, 0, S_IFDIR + 448),
     Record(65534, 1000, S_IFLNK + 511),
     Record(0, 5, S_IFIFO + 420),
     Record(0, 0, S_IFIFO + 384) @@ (VIRTFS_RDEV_KEY :> 0),
     Record(0, 5, S_IFCHR + 400) @@ (VIRTFS_RDEV_KEY :> 1281),
     Record(0, 6, S_IFBLK + 432) @@ (VIRTFS_RDEV_KEY :> 66305),
     Record(1000, 1000, S_IFSOCK + 493)}

StoreNames == {"a", "d"}

\* _write_virtfs_attrs(attrs, dir_name, file_name) on the root of the tree
WriteAttrs(file_name, attrs) ==
    /\ nops < MaxOps
    /\ \E w \in {_write_virtfs_attrs(World, "src", attrs, <<>>, file_name)} :
          Commit(w, Call("_write_virtfs_attrs", "src", <<file_name>>, <<attrs>>))

InitStore ==
    /\ InitWorld(IdleWorld)
    /\ InitDev

NextStore == \E file_name \in StoreNames, attrs \in SampleAttrs : WriteAttrs(file_name, attrs)

SpecStore == InitStore /\ [][NextStore]_vars

\* s is the decimal numeral of n: digits only, no leading zero, of value n
Decimal(s, n) ==
    /\ Len(s) >= 1
    /\ \A k \in DOMAIN s : \E d \in 0..9 : s[k] = Digits[d + 1]
    /\ Len(s) > 1 => s[1] # "0"
    /\ int(s) = n

\* C18: after _write_virtfs_attrs for a name that had no record,
\* _read_virtfs_attrs returns the record written, and the file holds the
\* lines of the keys virtfs.uid, virtfs.gid, virtfs.mode in this order,
\* followed by a line of virtfs.rdev exactly when the record has an rdev,
\* each value the decimal numeral of the record's value, the mode with its
\* type bits
SidecarRoundTrip ==
    (last.op = "_write_virtfs_attrs" /\ last.err = "" /\ ~last.had) =>
        LET attrs == last.arg[1]
            lines == meta[last.tree][last.path]
            keys  == <<VIRTFS_UID_KEY, VIRTFS_GID_KEY, VIRTFS_MODE_KEY>>
                     \o (IF VIRTFS_RDEV_KEY \in DOMAIN attrs
                         THEN <<VIRTFS_RDEV_KEY>> ELSE <<>>)
        IN  /\ _read_virtfs_attrs(World, last.tree, <<>>, last.path[1]) = attrs
            /\ [i \in DOMAIN lines |-> lines[i].key] = keys
            /\ \A i \in DOMAIN lines : Decimal(lines[i].val, attrs[lines[i].key])
            /\ S_IFMT(int(lines[3].val)) = S_IFMT(attrs[VIRTFS_MODE_KEY])

\* the record of a block device has been written for a name that had none
\* and its file has the four lines, the last one virtfs.rdev=66305
DeviceRecordWritten ==
    /\ last.op = "_write_virtfs_attrs" /\ last.err = "" /\ ~last.had
    /\ Len(meta[last.tree][last.path]) = 4
    /\ meta[last.tree][last.path][4] =
          [key |-> VIRTFS_RDEV_KEY, val |-> <<"6", "6", "3", "0", "5">>]

(***************************************************************************)
(* Staging what is staged.                                                 *)
(***************************************************************************)
\* the entry p of tree t is as a staging call leaves it: it has a record and
\* is a directory of permission 0700, or of permission 0600 and none of the
\* types that get a surrogate
AlreadyStaged(t, p) ==
    /\ p \in DOMAIN meta[t]
    /\ LET stmd == inode[dent[t][p]].mode
       IN  IF S_ISDIR(stmd) THEN S_IMODE(stmd) = 448
           ELSE /\ S_IMODE(stmd) = 384
                /\ ~(S_ISLNK(stmd) \/ S_ISFIFO(stmd) \/ S_ISCHR(stmd) \/ S_ISBLK(stmd))

\* C20: a step of stage_file or stage_directory that returns, all of whose
\* entries are already staged, changes no record, no metadata directory and
\* no entry: type, content, permission and owner stay as they are
StagingIdempotent ==
    [][(/\ last'.op \in {"stage_file", "stage_directory"}
        /\ last'.err = ""
        /\ \A p \in Processed(last') : AlreadyStaged(last'.tree, p)) =>
            /\ meta' = meta
            /\ metadirs' = metadirs
            /\ dent' = dent
            /\ inode' = inode]_vars

\* stage_file has been applied to the surrogate of a symlink that had its
\* record: the record is of type symlink, the entry a regular file of
\* permission 0600 that holds the link text
SymlinkRestaged ==
    /\ last.op = "stage_file" /\ last.err = "" /\ last.had
    /\ S_ISLNK(RecordOf(last.tree, last.path)[VIRTFS_MODE_KEY])
    /\ inode[dent[last.tree][last.path]].mode = S_IFREG + 384
    /\ inode[dent[last.tree][last.path]].data = <<"t">>

(***************************************************************************)
(* Two invocations of the entry points that run concurrently, one on each  *)
(* tree.  The module keeps no state between calls: what an invocation      *)
(* owns, the lstat result of the entry in hand and the TarFile with its    *)
(* inode table, is local to it; what the two share is the filesystem.      *)
(* A stager takes the steps of lines 333-366 for each entry in turn, a     *)
(* collector the call of line 306.  Each invocation lists its own tree,    *)
(* whose names no step changes, so the entries it will visit are fixed     *)
(* when it starts.                                                         *)
(***************************************************************************)
OneTree(i) == "src"

\* the tree of each invocation
ParTree(i) == IF i = 1 THEN "src" ELSE "dst"

ParEnv == [order |-> Ascending, hostmtime |-> 7, fault |-> NoFault]

\* the paths of a set in the order of the traversals
RECURSIVE PreOrder(_)
PreOrder(S) ==
    IF S = {} THEN <<>>
    ELSE LET m == CHOOSE p \in S : \A q \in S \ {p} : PathBefore(p, q)
         IN  <<m>> \o PreOrder(S \ {m})

ParKinds ==
    {<<"regX", "dir", "chr", "none">>,
     <<"regY", "none", "none", "lnk">>}

\* two host trees; shared: the entry a of dst is a link to the file a of src
ParWorld(ks, kd, shared) ==
    LET owner == <<Accounts.euid, Accounts.egid>>
        raw   == RawWorld(ks, owner, Accounts)
        off   == Len(TreeSlots) + 1
        own   == TreeInodes(kd, owner)
        dd    == [p \in DOMAIN TreeDent(kd) |->
                     IF shared /\ p = <<"a">> THEN raw.dent["src"][p]
                     ELSE TreeDent(kd)[p] + off]
    IN  [raw EXCEPT !.dent["dst"] = dd,
                    !.inode = @ @@ [i \in {dd[p] : p \in DOMAIN dd} \ DOMAIN @ |->
                                        own[i - off]]]

ParWorlds ==
    {ParWorld(ks, kd, shared) :
        ks \in ParKinds, kd \in ParKinds, shared \in {FALSE}}
    \cup {ParWorld(ks, ks, TRUE) : ks \in ParKinds}

\* the entry points the two invocations are of
ParOps ==
    {<<"stage_directory", "stage_directory">>,
     <<"stage_directory", "collect_artifact">>,
     <<"collect_artifact", "stage_directory">>}

FirstStep(op) == IF op = "stage_directory" THEN "lstat" ELSE "add"

Invocation(w, i, op) ==
    LET todo == PreOrder(DOMAIN w.dent[ParTree(i)])
    IN  [op |-> op, tree |-> ParTree(i), todo |-> todo,
         pc |-> IF todo = <<>> THEN "done" ELSE FirstStep(op),
         statres |-> <<>>, tf |-> NewTarFile, err |-> ""]

InitPar ==
    /\ \E w \in ParWorlds, ops \in ParOps :
          /\ InitWorld(w)
          /\ running = [start |-> w, run |-> [i \in 1..2 |-> Invocation(w, i, ops[i])]]
    /\ devIn = <<0, 0>>
    /\ devOut = <<>>

\* a step of invocation i: the filesystem as the step leaves it
ParCommit(w, i, r) ==
    /\ dent' = w.dent
    /\ inode' = w.inode
    /\ meta' = w.meta
    /\ metadirs' = w.metadirs
    /\ running' = [running EXCEPT !.run[i] = r]
    /\ UNCHANGED <<arc, unchanged, ident, last, nops, devvars>>

\* the entry in hand is done: the invocation ends on an error or after its
\* last entry, and else goes on to the next entry
Advance(r, err) ==
    IF err # "" THEN [r EXCEPT !.err = err, !.pc = "done"]
    ELSE IF Tail(r.todo) = <<>> THEN [r EXCEPT !.todo = <<>>, !.pc = "done"]
    ELSE [r EXCEPT !.todo = Tail(@), !.pc = FirstStep(r.op)]

\* lines 333-334
ParLstat(i) ==
    LET r == running.run[i]
    IN  /\ r.pc = "lstat"
        /\ ParCommit(World, i, [r EXCEPT !.statres = lstat(World, r.tree, Head(r.todo)),
                                         !.pc = "convert"])

\* lines 341-357
ParConvert(i) ==
    LET r    == running.run[i]
        p    == Head(r.todo)
        stmd == r.statres.st_mode
    IN  /\ r.pc = "convert"
        /\ IF S_ISCHR(stmd) \/ S_ISBLK(stmd) \/ S_ISFIFO(stmd)
           THEN ParCommit(create(unlink(World, r.tree, p), r.tree, p, <<>>), i,
                          [r EXCEPT !.pc = "chmod"])
           ELSE IF S_ISLNK(stmd)
           THEN IF islink(World, r.tree, p)
                THEN ParCommit(create(unlink(World, r.tree, p), r.tree, p,
                                      inode[dent[r.tree][p]].data), i,
                               [r EXCEPT !.pc = "chmod"])
                ELSE ParCommit(World, i, Advance(r, "OSError.EINVAL"))
           ELSE ParCommit(World, i, [r EXCEPT !.pc = "chmod"])

\* lines 360-363
ParChmod(i) ==
    LET r == running.run[i]
        p == Head(r.todo)
    IN  /\ r.pc = "chmod"
        /\ \E w \in {chmod(World, r.tree, p,
                           IF S_ISDIR(r.statres.st_mode) THEN 448 ELSE 384)} :
              IF w.err # "" THEN ParCommit(World, i, Advance(r, w.err))
              ELSE ParCommit(w, i, [r EXCEPT !.pc = "write"])

\* lines 336-342 and 366
ParWrite(i) ==
    LET r     == running.run[i]
        p     == Head(r.todo)
        stmd  == r.statres.st_mode
        attrs == Record(0, 0, stmd) @@
                 (IF S_ISCHR(stmd) \/ S_ISBLK(stmd) \/ S_ISFIFO(stmd)
                  THEN (VIRTFS_RDEV_KEY :> r.statres.st_rdev) ELSE <<>>)
    IN  /\ r.pc = "write"
        /\ \E w \in {_write_virtfs_attrs(World, r.tree, attrs, Parent(p), Basename(p))} :
              ParCommit(w, i, Advance(r, w.err))

\* line 306
ParAdd(i) ==
    LET r == running.run[i]
        p == Head(r.todo)
    IN  /\ r.pc = "add"
        /\ \E tf \in {add(r.tf, World, r.tree, p, p, Parent(p), MAGIC_TIMESTAMP, ParEnv)} :
              ParCommit(World, i, Advance([r EXCEPT !.tf = tf], tf.err))

NextPar ==
    \E i \in 1..2 :
        \/ ParLstat(i)
        \/ ParConvert(i)
        \/ ParChmod(i)
        \/ ParWrite(i)
        \/ ParAdd(i)

SpecPar == InitPar /\ [][NextPar]_vars

\* what is to be seen of tree t: each entry's stat data and content and the
\* entries of the tree that are links to its file, the records and the
\* metadata directories
View(w, t) ==
    <<[p \in DOMAIN w.dent[t] |->
          [stat  |-> w.inode[w.dent[t][p]],
           links |-> {q \in DOMAIN w.dent[t] : w.dent[t][q] = w.dent[t][p]}]],
      w.meta[t], w.metadirs[t]>>

\* what invocation i has produced: the tree with its records, or the members
\* of the artifact, and the error
Result(i) ==
    LET r == running.run[i]
    IN  IF r.op = "stage_directory" THEN <<View(World, r.tree), r.err>>
        ELSE <<r.tf.members, r.err>>

\* what the entry point of invocation i produces when it runs alone from the
\* state the two started from
Alone(i) ==
    LET r == running.run[i]
    IN  IF r.op = "stage_directory"
        THEN Then(stage_directory(running.start, r.tree, <<>>, Ascending),
                  LAMBDA w : <<View(w, r.tree), w.err>>)
        ELSE Then(collect_artifact(running.start, r.tree, FALSE, MAGIC_TIMESTAMP, ParEnv),
                  LAMBDA a : <<a.members, a.err>>)

\* no file has an entry in both trees
NoSharedFile ==
    \A p \in DOMAIN running.start.dent["src"], q \in DOMAIN running.start.dent["dst"] :
        running.start.dent["src"][p] # running.start.dent["dst"][q]

OverlayKinds ==
    {<<"lnk", "dir", "chr", "blk">>,
     <<"regX", "dir", "regY", "regX">>,
     <<"fifo", "none", "none", "blk">>,
     <<"regY", "none", "none", "none">>,
     <<"none", "dir", "regX", "regY">>}

\* the artifacts collect_artifact makes of host trees of these kinds
SampleArtifacts ==
    {collect_artifact(RawWorld(ks, <<Accounts.euid, Accounts.egid>>, Accounts), "src",
                      FALSE, MAGIC_TIMESTAMP, ParEnv) : ks \in OverlayKinds}

\* another artifact is the next to be staged
FetchArtifact(a) ==
    /\ arc # a
    /\ arc' = a
    /\ last' = [NoCall EXCEPT !.op = "fetch"]
    /\ unchanged' = FALSE
    /\ UNCHANGED <<dent, inode, meta, metadirs, ident, nops, devvars, running>>

InitOverlay ==
    /\ InitWorld(IdleWorld)
    /\ InitDev

NextOverlay ==
    \/ \E a \in SampleArtifacts : FetchArtifact(a)
    \/ StageArtifact("dst", FALSE)

SpecOverlay == InitOverlay /\ [][NextOverlay]_vars

GuestOwnership ==
    last.op = "collect_artifact" =>
        \A i \in DOMAIN arc.members :
            LET m == arc.members[i]
            IN  m.name \in DOMAIN meta[last.tree] =>
                    LET attrs == RecordOf(last.tree, m.name)
                    IN  /\ m.uid = attrs[VIRTFS_UID_KEY]
                        /\ m.gid = attrs[VIRTFS_GID_KEY]
                        /\ m.uname = str(attrs[VIRTFS_UID_KEY])
                        /\ m.gname = str(attrs[VIRTFS_GID_KEY])

(***************************************************************************)
(* collect_artifact with its archive file: the archive is written to a     *)
(* path outside the tree it collects, or over a regular file inside it.    *)
(***************************************************************************)
FrameKinds ==
    {<<"lnk", "dir", "chr", "regX">>,
     <<"fifo", "dir", "regY", "blk">>}

FrameWorlds ==
    {Then(RawWorld(ks, IF how = "root" THEN <<0, 0>> ELSE <<id.euid, id.egid>>, id),
          LAMBDA raw :
          IF how = "staged" THEN stage_directory(raw, "src", <<>>, Ascending) ELSE raw) :
        ks \in FrameKinds, id \in Identities, how \in {"root", "own", "staged"}}

\* where the archive goes
Filenames ==
    {[inside |-> FALSE, path |-> <<>>]}
    \cup {[inside |-> TRUE, path |-> p] : p \in {<<"b", "c">>, <<"d">>}}

\* the archive file as it is on disk when the pass is over, and what of it the
\* pass may find on disk when it comes to archive the file itself
ArchiveBytes == <<"t", "a", "r">>

ArchiveReads == {<<>>, <<"t">>}

\* a collector that writes its archive to a file of the tree whatever the
\* path it is given
OpenInTree(w, t, filename) == create(w, t, <<"d">>, <<>>)

\* open(filename, 'wb'): for the owner of the file and for the superuser
open_archive(w, t, filename) ==
    IF ~filename.inside THEN w
    ELSE IF w.ident.euid \notin {0, w.inode[w.dent[t][filename.path]].uid}
         THEN Raise(w, "IOError.EACCES")
         ELSE create(w, t, filename.path, <<>>)

CollectInto(t, filename, env) ==
    /\ nops < MaxOps
    /\ filename.inside =>
          /\ exists(World, t, filename.path)
          /\ S_ISREG(lstat(World, t, filename.path).st_mode)
    /\ \E w \in {open_archive(World, t, filename)},
          read \in (IF filename.inside THEN ArchiveReads ELSE {<<>>}) :
          IF w.err # ""
          THEN /\ last' = [Call("collect_artifact", t, filename.path, <<filename.inside>>)
                              EXCEPT !.err = w.err]
               /\ UNCHANGED <<dent, inode, meta, metadirs, arc>>
          ELSE \E seen \in {IF filename.inside THEN create(w, t, filename.path, read) ELSE w},
                  done \in {IF filename.inside
                            THEN create(w, t, filename.path, ArchiveBytes) ELSE w} :
                  /\ arc' = collect_artifact(seen, t, FALSE, MAGIC_TIMESTAMP, env)
                  /\ last' = [Call("collect_artifact", t, filename.path, <<filename.inside>>)
                                 EXCEPT !.err = arc'.err]
                  /\ dent' = done.dent
                  /\ inode' = done.inode
                  /\ meta' = done.meta
                  /\ metadirs' = done.metadirs
    /\ unchanged' = FALSE
    /\ nops' = nops + 1
    /\ UNCHANGED <<ident, devvars, running>>

InitFrame ==
    /\ \E w \in {x \in FrameWorlds : x.err = ""} : InitWorld(w)
    /\ InitDev

NextFrame == \E filename \in Filenames, env \in Envs("src") : CollectInto("src", filename, env)

SpecFrame == InitFrame /\ [][NextFrame]_vars

\* C24: a collection whose archive is written outside the tree leaves the
\* tree as it was, whether the pass completes or aborts: the entries, the
\* surrogates' content, owners and permission bits, the AttributeRecords and
\* the metadata directories
CollectReadOnly ==
    [][
        (last'.op = "collect_artifact" /\ ~last'.arg[1]) =>
            (dent' = dent /\ inode' = inode /\ meta' = meta /\ metadirs' = metadirs)
    ]_vars

\* a pass over a staged tree has aborted after it had archived a member, its
\* archive outside the tree
CollectAborted ==
    /\ last.op = "collect_artifact" /\ ~last.arg[1]
    /\ last.err # "" /\ arc.members # <<>>
    /\ meta["src"] # <<>>

\* C25: stage_file on a directory leaves the stores as stage_file on the path
\* spelled without a trailing separator leaves them, whichever way the path is
\* spelled: the same record under the basename in the store of the parent
\* directory, no metadata directory inside the staged directory, the same
\* outcome
SpellingIndependent ==
    [][
        (last'.op = "stage_file" /\ isdir(World, last'.tree, last'.path)) =>
            \E w \in {stage_file(World, last'.tree, last'.path, FALSE)} :
                /\ meta' = w.meta
                /\ metadirs' = w.metadirs
                /\ last'.err = w.err
    ]_vars

====
